---- MODULE Spec2Model ----
(***************************************************************************)
(* A model of the simulation engine of cat_mouse_game.py: maze generation, *)
(* breadth-first pathfinding, target selection with the cheese claim       *)
(* ledger, turn planning, action execution and the turn-phase scheduler.   *)
(*                                                                         *)
(* Rendering is left out.  Wall-clock time (pygame.time.get_ticks) is an   *)
(* input of every frame: the frame is told whether the turn delay and the  *)
(* door delay have elapsed.  The slide animation of a character is kept as *)
(* the number of frames it still lasts.  random is an input of map         *)
(* generation: a seed for random.choice/randrange, one for random.random   *)
(* and the permutation random.shuffle returns.                             *)
(***************************************************************************)
EXTENDS Integers, Sequences, FiniteSets, TLC

\* ------------------------------------------------------------------ bounds

\* Side of the grid (12 in the source; the lattice of carved cells has
\* (GRID_SIZE - 1) \div 2 cells a side).
GRID_SIZE == 7

\* Seeds of random.choice / random.randrange in generate_maze_dfs: 0..MaxSeed-1.
MaxSeed == 4

\* Seeds of the random.random() draws of place_doors_at_chokepoints.
MaxDoorSeed == 4

\* random.shuffle: the permutations i |-> (rot + i * stride) mod n with
\* rot < MaxRot and stride <= MaxStride.
MaxRot == 6

MaxStride == 4

\* Frames a one-cell slide lasts (is_animating stays True that long).
AnimFrames == 2

\* Cap of the turn counter (a run of the model stops planning there).
MaxTurn == 40

\* The grids bfs_pathfind is tried on by itself: every choice of PATH, WALL and
\* DOOR for the first PathCells cells of the rows at the corner of the grid.
PathCells == 6

\* --------------------------------------------------------------- constants

NumMice == 2

NumCheese == 6

CatMP == 2

MaxDoors == 3

NoTarget == 0

PATH == "PATH"
WALL == "WALL"
DOOR == "DOOR"

Coord == 0 .. (GRID_SIZE - 1)

\* The four steps, in the order the source enumerates them.
Dirs == << <<0, 1>>, <<1, 0>>, <<0, -1>>, <<-1, 0>> >>

\* ------------------------------------------------------------------ random

\* The k-th draw of random.choice / random.randrange among n values, for a
\* seed: any value below n is a value random can return.
Rnd(seed, k, n) ==
    (((seed + 1) * (k + 1) * (k + 2)) \div 2 + seed * k + (seed \div 2)) % n

\* The d-th draw of random.random() < 0.15 in place_doors_at_chokepoints: the
\* draws that succeed are the bits of the seed.
DoorDraw(dseed, d) == (dseed \div (2 ^ d)) % 2 = 1

RECURSIVE GCD(_, _)
GCD(a, b) == IF b = 0 THEN a ELSE GCD(b, a % b)

\* A draw with repeats in the place of random.shuffle: every position comes
\* twice.
Shuffle_with_repeats(s, rot, stride) ==
    [i \in 1 .. Len(s) |-> s[((rot + ((i - 1) \div 2) * stride) % Len(s)) + 1]]

\* random.shuffle(valid_positions): a permutation of the list.
Shuffle(s, rot, stride) ==
    [i \in 1 .. Len(s) |-> s[((rot + (i - 1) * stride) % Len(s)) + 1]]

Shuffles(n) ==
    {p \in (0 .. (MaxRot - 1)) \X (1 .. MaxStride) :
        p[1] < n /\ p[2] < n /\ GCD(p[2], n) = 1}

\* ---------------------------------------------------------- maze generation

AllWall == [y \in Coord |-> [x \in Coord |-> WALL]]

\* Carve that opens the cells of the lattice only, never the cell between two
\* of them.
Carve_lattice_only(maze, x, y) ==
    IF x % 2 = 1 /\ y % 2 = 1 THEN [maze EXCEPT ![y][x] = PATH] ELSE maze

Carve(maze, x, y) == [maze EXCEPT ![y][x] = PATH]

\* The unvisited lattice neighbours of (x, y), two cells away, as
\* <<nx, ny, dx, dy>> in the order of the source's loop.
LatticeNeighbors(maze, x, y) ==
    LET cand == [i \in 1 .. 4 |->
                   LET d == << <<0, 2>>, <<2, 0>>, <<0, -2>>, <<-2, 0>> >>[i]
                   IN  <<x + d[1], y + d[2], d[1], d[2]>>]
        ok(c) == /\ 1 <= c[1] /\ c[1] < GRID_SIZE - 1
                 /\ 1 <= c[2] /\ c[2] < GRID_SIZE - 1
                 /\ maze[c[2]][c[1]] = WALL
    IN  SelectSeq(cand, ok)

\* The while loop of generate_maze_dfs; k counts the random.choice calls.
RECURSIVE dfs_carve(_, _, _, _)
dfs_carve(maze, stack, seed, k) ==
    IF stack = << >> THEN maze
    ELSE LET current == stack[Len(stack)]
             x == current[1]
             y == current[2]
             neighbors == LatticeNeighbors(maze, x, y)
         IN  IF neighbors # << >>
             THEN LET c == neighbors[Rnd(seed, k, Len(neighbors)) + 1]
                      m1 == Carve(maze, x + (c[3] \div 2), y + (c[4] \div 2))
                      m2 == Carve(m1, c[1], c[2])
                  IN  dfs_carve(m2, Append(stack, <<c[1], c[2]>>), seed, k + 1)
             ELSE dfs_carve(maze, SubSeq(stack, 1, Len(stack) - 1), seed, k)

\* The values of random.randrange(2, GRID_SIZE - 2, 2).
BraidCoords == {c \in 2 .. (GRID_SIZE - 3) : c % 2 = 0}

BraidCoordSeq == [i \in 1 .. Cardinality(BraidCoords) |-> 2 * i]

\* One iteration of the braiding loop at (x, y): the first of the four
\* neighbours that is a wall with a path cell behind it is carved.
RECURSIVE braid_at(_, _, _, _)
braid_at(maze, x, y, i) ==
    IF i > 4 THEN maze
    ELSE LET nx == x + Dirs[i][1]
             ny == y + Dirs[i][2]
         IN  IF /\ maze[ny][nx] = WALL
                /\ maze[y + Dirs[i][2] * 2][x + Dirs[i][1] * 2] = PATH
             THEN Carve(maze, nx, ny)
             ELSE braid_at(maze, x, y, i + 1)

\* The braiding loop: GRID_SIZE * 2 iterations, two randrange draws each.
RECURSIVE braid(_, _, _)
braid(maze, seed, n) ==
    IF n = 0 \/ BraidCoords = {} THEN maze
    ELSE LET x == BraidCoordSeq[Rnd(seed, 2 * n, Len(BraidCoordSeq)) + 1]
             y == BraidCoordSeq[Rnd(seed, 2 * n + 1, Len(BraidCoordSeq)) + 1]
         IN  braid(braid_at(maze, x, y, 1), seed, n - 1)

generate_maze_dfs(seed) ==
    braid(dfs_carve(Carve(AllWall, 1, 1), << <<1, 1>> >>, seed, 0),
          seed, GRID_SIZE * 2)

\* Cells (i, j) of the scan of place_doors_at_chokepoints, row-major.
DoorScan ==
    LET w == GRID_SIZE - 4
    IN  [k \in 1 .. (w * w) |-> <<2 + ((k - 1) \div w), 2 + ((k - 1) % w)>>]

AdjacentPaths(maze, i, j) ==
    Cardinality({d \in 1 .. 4 : maze[i + Dirs[d][2]][j + Dirs[d][1]] = PATH})

\* The scan of place_doors_at_chokepoints from its k-th cell on; d counts
\* the random.random() draws made so far.
RECURSIVE place_doors_from(_, _, _, _, _)
place_doors_from(maze, k, door_count, dseed, d) ==
    IF k > Len(DoorScan) THEN maze
    ELSE LET i == DoorScan[k][1]
             j == DoorScan[k][2]
         IN  IF maze[i][j] = PATH /\ door_count < MaxDoors
                  /\ AdjacentPaths(maze, i, j) = 2
             THEN IF DoorDraw(dseed, d)
                  THEN place_doors_from([maze EXCEPT ![i][j] = DOOR],
                                        k + 1, door_count + 1, dseed, d + 1)
                  ELSE place_doors_from(maze, k + 1, door_count, dseed, d + 1)
             ELSE place_doors_from(maze, k + 1, door_count, dseed, d)

place_doors_at_chokepoints(maze, dseed) == place_doors_from(maze, 1, 0, dseed, 0)

\* valid_positions of generate_map: the interior PATH cells as (i, j) = (row,
\* column), row-major.
RECURSIVE valid_from(_, _)
valid_from(g, k) ==
    LET w == GRID_SIZE - 2
    IN  IF k > w * w THEN << >>
        ELSE LET i == 1 + ((k - 1) \div w)
                 j == 1 + ((k - 1) % w)
             IN  IF g[i][j] = PATH
                 THEN << <<i, j>> >> \o valid_from(g, k + 1)
                 ELSE valid_from(g, k + 1)

valid_positions(g) == valid_from(g, 1)

Cat(x, y) == [x |-> x, y |-> y, target |-> NoTarget, anim |-> 0]

Mouse(x, y, mouse_id) ==
    [x |-> x, y |-> y, alive |-> TRUE, target |-> NoTarget, anim |-> 0,
     mouse_id |-> mouse_id]

Cheese(x, y) == [x |-> x, y |-> y, eaten |-> FALSE]

\* What generate_map leaves in the game for one outcome of random: the grid,
\* the characters and the cheeses.  pop() takes the last position of the
\* shuffled list.
MapOf(g, shuffled) ==
    LET n == Len(shuffled)
        pos(k) == shuffled[n + 1 - k]
    IN  [grid |-> g,
         cat |-> Cat(pos(1)[2], pos(1)[1]),
         mice |-> [i \in 1 .. NumMice |-> Mouse(pos(1 + i)[2], pos(1 + i)[1], i)],
         cheeses |-> [c \in 1 .. NumCheese |->
                        Cheese(pos(1 + NumMice + c)[2], pos(1 + NumMice + c)[1])]]

\* The maps generate_map can produce within the bounds; a grid with fewer than
\* nine free cells is generated again (the recursive call), so it yields none.
GeneratedMaps ==
    UNION {
      LET g == place_doors_at_chokepoints(generate_maze_dfs(sd[1]), sd[2])
          valid == valid_positions(g)
      IN  IF Len(valid) < 1 + NumMice + NumCheese THEN {}
          ELSE {MapOf(g, Shuffle(valid, p[1], p[2])) : p \in Shuffles(Len(valid))}
      : sd \in (0 .. (MaxSeed - 1)) \X (0 .. (MaxDoorSeed - 1))}

\* ------------------------------------------------------------- pathfinding

InGrid(x, y) == 0 <= x /\ x < GRID_SIZE /\ 0 <= y /\ y < GRID_SIZE

\* bfs_expand that goes over PATH cells only: a door stops it like a wall.
RECURSIVE bfs_expand_doors_block(_, _, _, _, _, _, _)
bfs_expand_doors_block(g, x, y, path, queue, visited, i) ==
    IF i > 4 THEN [queue |-> queue, visited |-> visited]
    ELSE LET nx == x + Dirs[i][1]
             ny == y + Dirs[i][2]
         IN  IF InGrid(nx, ny) /\ <<nx, ny>> \notin visited /\ g[ny][nx] = PATH
             THEN bfs_expand_doors_block(g, x, y, path,
                             Append(queue, <<nx, ny, Append(path, <<nx, ny>>)>>),
                             visited \cup {<<nx, ny>>}, i + 1)
             ELSE bfs_expand_doors_block(g, x, y, path, queue, visited, i + 1)

\* The for loop over the four neighbours of (x, y) in bfs_pathfind, from the
\* i-th direction on.
RECURSIVE bfs_expand(_, _, _, _, _, _, _)
bfs_expand(g, x, y, path, queue, visited, i) ==
    IF i > 4 THEN [queue |-> queue, visited |-> visited]
    ELSE LET nx == x + Dirs[i][1]
             ny == y + Dirs[i][2]
         IN  IF InGrid(nx, ny) /\ <<nx, ny>> \notin visited /\ g[ny][nx] # WALL
             THEN bfs_expand(g, x, y, path,
                             Append(queue, <<nx, ny, Append(path, <<nx, ny>>)>>),
                             visited \cup {<<nx, ny>>}, i + 1)
             ELSE bfs_expand(g, x, y, path, queue, visited, i + 1)

\* The while loop of bfs_pathfind.
RECURSIVE bfs_loop(_, _, _, _, _)
bfs_loop(g, queue, visited, target_x, target_y) ==
    IF queue = << >> THEN << >>
    ELSE LET h == Head(queue)
         IN  IF h[1] = target_x /\ h[2] = target_y THEN h[3]
             ELSE LET r == bfs_expand(g, h[1], h[2], h[3], Tail(queue), visited, 1)
                  IN  bfs_loop(g, r.queue, r.visited, target_x, target_y)

\* The path from (start_x, start_y) to (target_x, target_y): the cells after
\* the start, the target included; empty when there is none.  Doors count as
\* free cells whether open or not.
bfs_pathfind(g, start_x, start_y, target_x, target_y) ==
    bfs_loop(g, << <<start_x, start_y, << >> >> >>, {<<start_x, start_y>>},
             target_x, target_y)

\* float('inf') of find_nearest_target: no path is that long.
Infinity == GRID_SIZE * GRID_SIZE + 1

\* nearest_loop that keeps the last of the targets at the same distance.
RECURSIVE nearest_loop_last_tie(_, _, _, _, _, _)
nearest_loop_last_tie(g, character, targets, i, min_dist, nearest) ==
    IF i > Len(targets) THEN nearest
    ELSE LET path == bfs_pathfind(g, character.x, character.y,
                                  targets[i].x, targets[i].y)
         IN  IF path # << >> /\ Len(path) <= min_dist
             THEN nearest_loop_last_tie(g, character, targets, i + 1,
                                        Len(path), targets[i].id)
             ELSE nearest_loop_last_tie(g, character, targets, i + 1,
                                        min_dist, nearest)

\* The for loop of find_nearest_target over targets (records with an id and a
\* position), from the i-th on.
RECURSIVE nearest_loop(_, _, _, _, _, _)
nearest_loop(g, character, targets, i, min_dist, nearest) ==
    IF i > Len(targets) THEN nearest
    ELSE LET path == bfs_pathfind(g, character.x, character.y,
                                  targets[i].x, targets[i].y)
         IN  IF path # << >> /\ Len(path) < min_dist
             THEN nearest_loop(g, character, targets, i + 1, Len(path), targets[i].id)
             ELSE nearest_loop(g, character, targets, i + 1, min_dist, nearest)

find_nearest_target(g, character, targets) ==
    nearest_loop(g, character, targets, 1, Infinity, NoTarget)

\* ------------------------------------------------------------------- state

VARIABLES
    state,                   \* "MENU" or "GAME"
    grid,                    \* grid[y][x]: PATH, WALL or DOOR
    door_states,             \* door_states[y][x]: the door there was opened
    cat,                     \* the Cat, NoCat before the first map
    mice,                    \* the list of Mouse
    cheeses,                 \* the list of Cheese
    current_turn,
    turn_phase,
    winner,                  \* "None", "CAT" or "MICE"
    pending_moves,           \* the queue of <<action, x, y>>
    current_character,       \* "None", "cat", "mouse1" or "mouse2"
    door_opening_animation,  \* TRUE while the time of the last open_door is kept
    claimed_cheeses          \* cheese -> mouse that claimed it, NoTarget: no entry

vars == <<state, grid, door_states, cat, mice, cheeses, current_turn,
          turn_phase, winner, pending_moves, current_character,
          door_opening_animation, claimed_cheeses>>

\* The fields of the Game object the engine reads and writes, as one record;
\* the methods below take it and return it changed.
Self ==
    [grid |-> grid, door_states |-> door_states, cat |-> cat, mice |-> mice,
     cheeses |-> cheeses, current_turn |-> current_turn,
     turn_phase |-> turn_phase, winner |-> winner,
     pending_moves |-> pending_moves, current_character |-> current_character,
     door_opening_animation |-> door_opening_animation,
     claimed_cheeses |-> claimed_cheeses]

Becomes(G) ==
    /\ grid' = G.grid
    /\ door_states' = G.door_states
    /\ cat' = G.cat
    /\ mice' = G.mice
    /\ cheeses' = G.cheeses
    /\ current_turn' = G.current_turn
    /\ turn_phase' = G.turn_phase
    /\ winner' = G.winner
    /\ pending_moves' = G.pending_moves
    /\ current_character' = G.current_character
    /\ door_opening_animation' = G.door_opening_animation
    /\ claimed_cheeses' = G.claimed_cheeses

\* mice[i] of the source is mice[i + 1] here.
MouseIndex(character) == IF character = "mouse1" THEN 1 ELSE 2

\* Character.is_animating.
is_animating(G, character) ==
    IF character = "cat" THEN G.cat.anim > 0
    ELSE G.mice[MouseIndex(character)].anim > 0

\* ---------------------------------------------------------------- planning

\* [m for m in self.mice if m.alive], as targets.
alive_mice(G) ==
    LET ids == SelectSeq([i \in 1 .. Len(G.mice) |-> i], LAMBDA i : G.mice[i].alive)
    IN  [k \in 1 .. Len(ids) |-> [id |-> ids[k], x |-> G.mice[ids[k]].x,
                                  y |-> G.mice[ids[k]].y]]

\* [c for c in self.cheeses if not c.eaten], as targets.
uneaten_cheese(G) ==
    LET ids == SelectSeq([c \in 1 .. Len(G.cheeses) |-> c],
                         LAMBDA c : ~G.cheeses[c].eaten)
    IN  [k \in 1 .. Len(ids) |-> [id |-> ids[k], x |-> G.cheeses[ids[k]].x,
                                  y |-> G.cheeses[ids[k]].y]]

\* available_cheese without the filter on the claims of the other mouse.
available_cheese_any(G, i) == uneaten_cheese(G)

\* available_cheese without the fall back to every uneaten cheese.
available_cheese_no_fallback(G, i) ==
    SelectSeq(uneaten_cheese(G),
              LAMBDA t : G.claimed_cheeses[t.id] = NoTarget
                         \/ G.claimed_cheeses[t.id] = i)

\* The cheeses mouse i may go for: those no other mouse claimed, or every
\* uneaten cheese when there is none.
available_cheese(G, i) ==
    LET free == SelectSeq(uneaten_cheese(G),
                          LAMBDA t : G.claimed_cheeses[t.id] = NoTarget
                                     \/ G.claimed_cheeses[t.id] = i)
    IN  IF free = << >> THEN uneaten_cheese(G) ELSE free

find_nearest_unclaimed_cheese(G, i) ==
    find_nearest_target(G.grid, G.mice[i], available_cheese(G, i))

IsClosedDoor(G, x, y) == G.grid[y][x] = DOOR /\ ~G.door_states[y][x]

\* cat_moves that takes every cell of the path for a closed door.
RECURSIVE cat_moves_always_opens(_, _, _, _, _)
cat_moves_always_opens(G, path, k, mp_remaining, moves) ==
    IF k > Len(path) \/ mp_remaining <= 0 THEN moves
    ELSE LET next_x == path[k][1]
             next_y == path[k][2]
         IN  IF G.grid[next_y][next_x] = DOOR \/ ~G.door_states[next_y][next_x]
             THEN IF mp_remaining - 1 > 0
                  THEN cat_moves_always_opens(G, path, k + 1, mp_remaining - 2,
                                 moves \o << <<"open_door", next_x, next_y>>,
                                             <<"move", next_x, next_y>> >>)
                  ELSE Append(moves, <<"open_door", next_x, next_y>>)
             ELSE cat_moves_always_opens(G, path, k + 1, mp_remaining - 1,
                            Append(moves, <<"move", next_x, next_y>>))

\* cat_moves that never opens a door: it walks into every cell of the path.
RECURSIVE cat_moves_through_doors(_, _, _, _, _)
cat_moves_through_doors(G, path, k, mp_remaining, moves) ==
    IF k > Len(path) \/ mp_remaining <= 0 THEN moves
    ELSE cat_moves_through_doors(G, path, k + 1, mp_remaining - 1,
                                 Append(moves, <<"move", path[k][1], path[k][2]>>))

\* The for loop of plan_cat_turn over the path, from its k-th cell on.
RECURSIVE cat_moves(_, _, _, _, _)
cat_moves(G, path, k, mp_remaining, moves) ==
    IF k > Len(path) \/ mp_remaining <= 0 THEN moves
    ELSE LET next_x == path[k][1]
             next_y == path[k][2]
         IN  IF IsClosedDoor(G, next_x, next_y)
             THEN IF mp_remaining - 1 > 0
                  THEN cat_moves(G, path, k + 1, mp_remaining - 2,
                                 moves \o << <<"open_door", next_x, next_y>>,
                                             <<"move", next_x, next_y>> >>)
                  ELSE Append(moves, <<"open_door", next_x, next_y>>)
             ELSE cat_moves(G, path, k + 1, mp_remaining - 1,
                            Append(moves, <<"move", next_x, next_y>>))

\* plan_cat_turn: the game after it (cat.target set) and the moves returned.
plan_cat_turn(G) ==
    IF alive_mice(G) = << >> THEN [g |-> G, moves |-> << >>]
    ELSE LET target == find_nearest_target(G.grid, G.cat, alive_mice(G))
         IN  IF target = NoTarget THEN [g |-> G, moves |-> << >>]
             ELSE LET G1 == [G EXCEPT !.cat.target = target]
                      path == bfs_pathfind(G.grid, G.cat.x, G.cat.y,
                                           G.mice[target].x, G.mice[target].y)
                  IN  [g |-> G1,
                       moves |-> IF path = << >> THEN << >>
                                 ELSE cat_moves(G1, path, 1, CatMP, << >>)]

\* plan_mouse_turn that, at a closed door, opens it and walks in.
plan_mouse_turn_open_and_move(G, i) ==
    IF ~G.mice[i].alive THEN [g |-> G, moves |-> << >>]
    ELSE LET target == find_nearest_unclaimed_cheese(G, i)
         IN  IF target = NoTarget THEN [g |-> G, moves |-> << >>]
             ELSE LET G1 == [G EXCEPT !.claimed_cheeses[target] = i,
                                      !.mice[i].target = target]
                      path == bfs_pathfind(G.grid, G.mice[i].x, G.mice[i].y,
                                           G.cheeses[target].x, G.cheeses[target].y)
                  IN  [g |-> G1,
                       moves |-> IF path = << >> THEN << >>
                                 ELSE IF IsClosedDoor(G1, path[1][1], path[1][2])
                                 THEN << <<"open_door", path[1][1], path[1][2]>>,
                                         <<"move", path[1][1], path[1][2]>> >>
                                 ELSE << <<"move", path[1][1], path[1][2]>> >>]

\* plan_mouse_turn(self.mice[i - 1]): the game after it (the claim written,
\* the target set) and the moves returned.
plan_mouse_turn(G, i) ==
    IF ~G.mice[i].alive THEN [g |-> G, moves |-> << >>]
    ELSE LET target == find_nearest_unclaimed_cheese(G, i)
         IN  IF target = NoTarget THEN [g |-> G, moves |-> << >>]
             ELSE LET G1 == [G EXCEPT !.claimed_cheeses[target] = i,
                                      !.mice[i].target = target]
                      path == bfs_pathfind(G.grid, G.mice[i].x, G.mice[i].y,
                                           G.cheeses[target].x, G.cheeses[target].y)
                  IN  [g |-> G1,
                       moves |-> IF path = << >> THEN << >>
                                 ELSE IF IsClosedDoor(G1, path[1][1], path[1][2])
                                 THEN << <<"open_door", path[1][1], path[1][2]>> >>
                                 ELSE << <<"move", path[1][1], path[1][2]>> >>]

\* --------------------------------------------------------------- execution

\* capture_mice with the release of the claims left out.
RECURSIVE capture_mice_keep_claims(_, _)
capture_mice_keep_claims(G, i) ==
    IF i > Len(G.mice) THEN G
    ELSE IF G.mice[i].alive /\ G.mice[i].x = G.cat.x /\ G.mice[i].y = G.cat.y
         THEN capture_mice_keep_claims(
                  [G EXCEPT !.mice[i].alive = FALSE,
                            !.mice[i].target = NoTarget],
                  i + 1)
         ELSE capture_mice_keep_claims(G, i + 1)

\* The capture loop of execute_next_move after a move of the cat, over the
\* mice from the i-th on: a living mouse on the cat's cell dies, loses its
\* target and its claims.
RECURSIVE capture_mice(_, _)
capture_mice(G, i) ==
    IF i > Len(G.mice) THEN G
    ELSE IF G.mice[i].alive /\ G.mice[i].x = G.cat.x /\ G.mice[i].y = G.cat.y
         THEN capture_mice(
                  [G EXCEPT !.mice[i].alive = FALSE,
                            !.mice[i].target = NoTarget,
                            !.claimed_cheeses =
                                [c \in DOMAIN G.claimed_cheeses |->
                                    IF G.claimed_cheeses[c] = i THEN NoTarget
                                    ELSE G.claimed_cheeses[c]]],
                  i + 1)
         ELSE capture_mice(G, i + 1)

\* eat_cheeses with the removal of the claim left out.
RECURSIVE eat_cheeses_keep_claim(_, _, _)
eat_cheeses_keep_claim(G, m, c) ==
    IF c > Len(G.cheeses) THEN G
    ELSE IF /\ ~G.cheeses[c].eaten
            /\ G.cheeses[c].x = G.mice[m].x /\ G.cheeses[c].y = G.mice[m].y
         THEN eat_cheeses_keep_claim([G EXCEPT !.cheeses[c].eaten = TRUE,
                                               !.mice[m].target = NoTarget],
                                     m, c + 1)
         ELSE eat_cheeses_keep_claim(G, m, c + 1)

\* The eating loop of execute_next_move after a move of mouse m, over the
\* cheeses from the c-th on.
RECURSIVE eat_cheeses(_, _, _)
eat_cheeses(G, m, c) ==
    IF c > Len(G.cheeses) THEN G
    ELSE IF /\ ~G.cheeses[c].eaten
            /\ G.cheeses[c].x = G.mice[m].x /\ G.cheeses[c].y = G.mice[m].y
         THEN eat_cheeses([G EXCEPT !.cheeses[c].eaten = TRUE,
                                    !.mice[m].target = NoTarget,
                                    !.claimed_cheeses[c] = NoTarget],
                          m, c + 1)
         ELSE eat_cheeses(G, m, c + 1)

\* apply_action with the capture test after the move of a mouse too.
apply_action_capture_on_any_move(G, a) ==
    IF a[1] = "open_door"
    THEN [G EXCEPT !.door_states[a[3]][a[2]] = TRUE,
                   !.door_opening_animation = TRUE]
    ELSE IF G.current_character = "cat"
    THEN capture_mice([G EXCEPT !.cat.x = a[2], !.cat.y = a[3],
                                !.cat.anim = AnimFrames], 1)
    ELSE LET m == MouseIndex(G.current_character)
         IN  capture_mice(
                 eat_cheeses([G EXCEPT !.mice[m].x = a[2], !.mice[m].y = a[3],
                                       !.mice[m].anim = AnimFrames], m, 1),
                 1)

\* apply_action whose open_door builds the door matrix anew, with the one door
\* open.
apply_action_fresh_doors(G, a) ==
    IF a[1] = "open_door"
    THEN [G EXCEPT !.door_states =
                       [y \in Coord |-> [x \in Coord |-> x = a[2] /\ y = a[3]]],
                   !.door_opening_animation = TRUE]
    ELSE IF G.current_character = "cat"
    THEN capture_mice([G EXCEPT !.cat.x = a[2], !.cat.y = a[3],
                                !.cat.anim = AnimFrames], 1)
    ELSE LET m == MouseIndex(G.current_character)
         IN  eat_cheeses([G EXCEPT !.mice[m].x = a[2], !.mice[m].y = a[3],
                                   !.mice[m].anim = AnimFrames], m, 1)

\* The effect of one dequeued action <<action, x, y>> of current_character.
apply_action(G, a) ==
    IF a[1] = "open_door"
    THEN [G EXCEPT !.door_states[a[3]][a[2]] = TRUE,
                   !.door_opening_animation = TRUE]
    ELSE IF G.current_character = "cat"
    THEN capture_mice([G EXCEPT !.cat.x = a[2], !.cat.y = a[3],
                                !.cat.anim = AnimFrames], 1)
    ELSE LET m == MouseIndex(G.current_character)
         IN  eat_cheeses([G EXCEPT !.mice[m].x = a[2], !.mice[m].y = a[3],
                                   !.mice[m].anim = AnimFrames], m, 1)

\* execute_next_move without the wait for the slide of the current character.
execute_next_move_no_wait(G, door_elapsed) ==
    IF G.pending_moves = << >> THEN [g |-> G, done |-> TRUE]
    ELSE IF G.door_opening_animation /\ ~door_elapsed
    THEN [g |-> G, done |-> FALSE]
    ELSE [g |-> apply_action([G EXCEPT !.door_opening_animation = FALSE,
                                       !.pending_moves = Tail(G.pending_moves)],
                             Head(G.pending_moves)),
          done |-> FALSE]

\* execute_next_move: the game after it and the value returned.  door_elapsed
\* says whether the door delay has passed since the last open_door.
execute_next_move(G, door_elapsed) ==
    IF G.pending_moves = << >> THEN [g |-> G, done |-> TRUE]
    ELSE IF G.current_character # "None" /\ is_animating(G, G.current_character)
    THEN [g |-> G, done |-> FALSE]
    ELSE IF G.door_opening_animation /\ ~door_elapsed
    THEN [g |-> G, done |-> FALSE]
    ELSE [g |-> apply_action([G EXCEPT !.door_opening_animation = FALSE,
                                       !.pending_moves = Tail(G.pending_moves)],
                             Head(G.pending_moves)),
          done |-> FALSE]

\* --------------------------------------------------------------- scheduler

\* MouseAlive without the test of the alive flag.
MouseAlive_any(G, i) == Len(G.mice) > i - 1

MouseAlive(G, i) == Len(G.mice) > i - 1 /\ G.mice[i].alive

NextTurn(G) == [G EXCEPT !.current_turn = G.current_turn + 1,
                         !.turn_phase = "ANNOUNCE_CAT"]

ToPhase(G, phase) == [G EXCEPT !.turn_phase = phase]

\* Where the phases of the cat go on to: the first living mouse, or the next
\* turn.
after_cat(G) ==
    IF MouseAlive(G, 1) THEN ToPhase(G, "ANNOUNCE_MOUSE1")
    ELSE IF MouseAlive(G, 2) THEN ToPhase(G, "ANNOUNCE_MOUSE2")
    ELSE NextTurn(G)

\* after_mouse1 that forgets to count the turn when mouse 2 is dead.
after_mouse1_no_count(G) ==
    IF MouseAlive(G, 2) THEN ToPhase(G, "ANNOUNCE_MOUSE2")
    ELSE ToPhase(G, "ANNOUNCE_CAT")

\* Where the phases of mouse 1 go on to.
after_mouse1(G) ==
    IF MouseAlive(G, 2) THEN ToPhase(G, "ANNOUNCE_MOUSE2") ELSE NextTurn(G)

Drained(G) ==
    G.pending_moves = << >> /\ ~is_animating(G, G.current_character)

\* The if/elif chain of process_turn on turn_phase.
phase_step(G) ==
    CASE G.turn_phase = "ANNOUNCE_CAT" -> ToPhase(G, "EXECUTE_CAT")
      [] G.turn_phase = "EXECUTE_CAT" ->
            LET p == plan_cat_turn([G EXCEPT !.current_character = "cat"])
                G1 == [p.g EXCEPT !.pending_moves = p.moves]
            IN  IF p.moves = << >> THEN after_cat(G1)
                ELSE ToPhase(G1, "EXECUTING_CAT")
      [] G.turn_phase = "EXECUTING_CAT" ->
            IF Drained(G) THEN after_cat(G) ELSE G
      [] G.turn_phase = "ANNOUNCE_MOUSE1" ->
            IF MouseAlive(G, 1) THEN ToPhase(G, "EXECUTE_MOUSE1")
            ELSE after_mouse1(G)
      [] G.turn_phase = "EXECUTE_MOUSE1" ->
            LET p == plan_mouse_turn([G EXCEPT !.current_character = "mouse1"], 1)
                G1 == IF MouseAlive(G, 1)
                      THEN [p.g EXCEPT !.pending_moves = p.moves]
                      ELSE G
            IN  IF G1.pending_moves = << >> THEN after_mouse1(G1)
                ELSE ToPhase(G1, "EXECUTING_MOUSE1")
      [] G.turn_phase = "EXECUTING_MOUSE1" ->
            IF Drained(G) THEN after_mouse1(G) ELSE G
      [] G.turn_phase = "ANNOUNCE_MOUSE2" ->
            IF MouseAlive(G, 2) THEN ToPhase(G, "EXECUTE_MOUSE2")
            ELSE NextTurn(G)
      [] G.turn_phase = "EXECUTE_MOUSE2" ->
            LET p == plan_mouse_turn([G EXCEPT !.current_character = "mouse2"], 2)
                G1 == IF MouseAlive(G, 2)
                      THEN [p.g EXCEPT !.pending_moves = p.moves]
                      ELSE G
            IN  IF G1.pending_moves = << >> THEN NextTurn(G1)
                ELSE ToPhase(G1, "EXECUTING_MOUSE2")
      [] G.turn_phase = "EXECUTING_MOUSE2" ->
            IF Drained(G) THEN NextTurn(G) ELSE G
      [] OTHER -> G

\* check_victory that gives the game to the cat as soon as one mouse is dead.
check_victory_any_dead(G) ==
    IF Len(alive_mice(G)) < Len(G.mice) THEN [G EXCEPT !.winner = "CAT"]
    ELSE IF uneaten_cheese(G) = << >> THEN [G EXCEPT !.winner = "MICE"]
    ELSE G

\* check_victory.
check_victory(G) ==
    IF alive_mice(G) = << >> THEN [G EXCEPT !.winner = "CAT"]
    ELSE IF uneaten_cheese(G) = << >> THEN [G EXCEPT !.winner = "MICE"]
    ELSE G

\* process_turn.  turn_elapsed says whether the turn delay has passed since
\* last_turn_time.
process_turn(G, turn_elapsed, door_elapsed) ==
    LET busy == \/ G.pending_moves # << >>
                \/ (G.current_character # "None"
                    /\ is_animating(G, G.current_character))
        ex == IF busy THEN execute_next_move(G, door_elapsed)
              ELSE [g |-> G, done |-> TRUE]
    IN  IF ~ex.done THEN ex.g
        ELSE IF ~turn_elapsed THEN ex.g
        ELSE check_victory(phase_step(ex.g))

\* A slide that never ends (a variant of update_animation that fairness of
\* the frames cannot help).
update_animation_stuck(c) == c

\* Character.update_animation, once a frame: the slide goes on one frame.
update_animation(c) == IF c.anim > 0 THEN [c EXCEPT !.anim = c.anim - 1] ELSE c

\* The animation updates of a frame of run(): the cat and the living mice.
update_animations(G) ==
    [G EXCEPT !.cat = update_animation(G.cat),
              !.mice = [i \in DOMAIN G.mice |->
                          IF G.mice[i].alive THEN update_animation(G.mice[i])
                          ELSE G.mice[i]]]

\* ----------------------------------------------------------------- actions

\* self.cat = None of Game.__init__: no Cat yet, so one that is nowhere.
NoCat == [x |-> -1, y |-> -1, target |-> NoTarget, anim |-> 0]

\* Game.__init__.
Init ==
    /\ state = "MENU"
    /\ grid = [y \in Coord |-> [x \in Coord |-> PATH]]
    /\ door_states = [y \in Coord |-> [x \in Coord |-> FALSE]]
    /\ cat = NoCat
    /\ mice = << >>
    /\ cheeses = << >>
    /\ current_turn = 0
    /\ turn_phase = "ANNOUNCE_CAT"
    /\ winner = "None"
    /\ pending_moves = << >>
    /\ current_character = "None"
    /\ door_opening_animation = FALSE
    /\ claimed_cheeses = [c \in 1 .. NumCheese |-> NoTarget]

\* StartRun without line 254 of generate_map: the doors stay as the last run
\* left them.
StartRunKeepDoors ==
    /\ state = "MENU"
    /\ \E m \in GeneratedMaps :
          /\ grid' = m.grid
          /\ cat' = m.cat
          /\ mice' = m.mice
          /\ cheeses' = m.cheeses
    /\ claimed_cheeses' = [c \in 1 .. NumCheese |-> NoTarget]
    /\ state' = "GAME"
    /\ winner' = "None"
    /\ current_turn' = 0
    /\ turn_phase' = "ANNOUNCE_CAT"
    /\ pending_moves' = << >>
    /\ current_character' = "None"
    /\ UNCHANGED <<door_states, door_opening_animation>>

\* run(): a click on the start button of the menu.  generate_map, then the
\* scheduler is reset.
StartRun ==
    /\ state = "MENU"
    /\ \E m \in GeneratedMaps :
          /\ grid' = m.grid
          /\ cat' = m.cat
          /\ mice' = m.mice
          /\ cheeses' = m.cheeses
    /\ door_states' = [y \in Coord |-> [x \in Coord |-> FALSE]]
    /\ claimed_cheeses' = [c \in 1 .. NumCheese |-> NoTarget]
    /\ state' = "GAME"
    /\ winner' = "None"
    /\ current_turn' = 0
    /\ turn_phase' = "ANNOUNCE_CAT"
    /\ pending_moves' = << >>
    /\ current_character' = "None"
    /\ UNCHANGED door_opening_animation

\* Tick without the test of the winner: process_turn runs in every frame.
TickAfterWin ==
    /\ state = "GAME"
    /\ \E turn_elapsed \in BOOLEAN, door_elapsed \in BOOLEAN :
          Becomes(update_animations(
              IF current_turn < MaxTurn
              THEN process_turn(Self, turn_elapsed, door_elapsed)
              ELSE Self))
    /\ UNCHANGED state

\* run(): one frame in the GAME state, for what the clock says: process_turn
\* unless the game is won, then the animation updates.
Frame(turn_elapsed, door_elapsed) ==
    update_animations(IF winner = "None" /\ current_turn < MaxTurn
                      THEN process_turn(Self, turn_elapsed, door_elapsed)
                      ELSE Self)

Tick ==
    /\ state = "GAME"
    /\ \E turn_elapsed \in BOOLEAN, door_elapsed \in BOOLEAN :
          Becomes(Frame(turn_elapsed, door_elapsed))
    /\ UNCHANGED state

\* run(): the space key once the game is won.
ReturnToMenu ==
    /\ winner # "None"
    /\ state' = "MENU"
    /\ UNCHANGED <<grid, door_states, cat, mice, cheeses, current_turn,
                   turn_phase, winner, pending_moves, current_character,
                   door_opening_animation, claimed_cheeses>>

Next == StartRun \/ Tick \/ ReturnToMenu

Spec == Init /\ [][Next]_vars

\* ENABLED <<Tick>>_vars: some frame changes the game.
TickEnabled ==
    /\ state = "GAME"
    /\ \E turn_elapsed \in BOOLEAN, door_elapsed \in BOOLEAN :
          Frame(turn_elapsed, door_elapsed) # Self

\* Fair ticking: the frames of the game keep coming, the delays elapse and
\* the slides end, so a frame that can change the game eventually does.  This
\* is WF_vars(Tick), with ENABLED <<Tick>>_vars written out as TickEnabled.
FairSpec == Spec /\ ([]<>~TickEnabled \/ []<><<Tick>>_vars)

\* bfs_pathfind by itself, on grids generate_map need not produce.

\* The window: rows of (GRID_SIZE - 1) \div 2 cells from the corner (0, 0) on.
PathWindow ==
    LET w == (GRID_SIZE - 1) \div 2
    IN  {<<(k - 1) % w, (k - 1) \div w>> : k \in 1 .. PathCells}

\* The grid with the given kinds in the window and walls everywhere else.
PathGrid(kinds) ==
    [y \in Coord |-> [x \in Coord |->
        IF <<x, y>> \in PathWindow THEN kinds[<<x, y>>] ELSE WALL]]

\* A Game object with some grid and nothing on it.
PathInit ==
    /\ state = "MENU"
    /\ \E kinds \in [PathWindow -> {PATH, WALL, DOOR}] : grid = PathGrid(kinds)
    /\ door_states = [y \in Coord |-> [x \in Coord |-> FALSE]]
    /\ cat = NoCat
    /\ mice = << >>
    /\ cheeses = << >>
    /\ current_turn = 0
    /\ turn_phase = "ANNOUNCE_CAT"
    /\ winner = "None"
    /\ pending_moves = << >>
    /\ current_character = "None"
    /\ door_opening_animation = FALSE
    /\ claimed_cheeses = [c \in 1 .. NumCheese |-> NoTarget]

\* The call of bfs_pathfind plan_cat_turn makes, from the cell of the cat to
\* the cell of a mouse, for a cat and a mouse anywhere in the window; the path
\* returned is kept in pending_moves.
PathQuery ==
    /\ \E start \in PathWindow, target \in PathWindow :
          /\ cat' = Cat(start[1], start[2])
          /\ mice' = << Mouse(target[1], target[2], 1) >>
          /\ pending_moves' =
                 bfs_pathfind(grid, start[1], start[2], target[1], target[2])
    /\ UNCHANGED <<state, grid, door_states, cheeses, current_turn, turn_phase,
                   winner, current_character, door_opening_animation,
                   claimed_cheeses>>

PathSpec == PathInit /\ [][PathQuery]_vars

\* ------------------------------------------------------------------ claims

InGame == state = "GAME"

\* A step inside one run: not the start of a new run.
SameRun == state = "GAME" /\ state' = "GAME"

Mice == 1 .. NumMice

Cheeses == 1 .. NumCheese

Other(i) == 3 - i

NoneAlive == \A i \in Mice : ~mice[i].alive

NoneUneaten == \A c \in Cheeses : cheeses[c].eaten

\* The outcome the victory evaluation gives for the mice and cheeses.
Outcome(ms, cs) ==
    IF \A i \in Mice : ~ms[i].alive THEN "CAT"
    ELSE IF \A c \in Cheeses : cs[c].eaten THEN "MICE"
    ELSE "None"

\* C1: the victory evaluation, which runs with every phase change, sets the
\* outcome to CAT iff no mouse is alive, else to MICE iff no cheese is left,
\* else leaves it unset; so in every state CAT means no mouse is alive and
\* MICE means no cheese is left and some mouse is alive.
C1_VictoryEvaluation ==
    /\ [](InGame => /\ (winner = "CAT" => NoneAlive)
                    /\ (winner = "MICE" => NoneUneaten /\ ~NoneAlive))
    /\ [][SameRun /\ (turn_phase' # turn_phase \/ winner' # winner)
            => winner' = Outcome(mice', cheeses')]_vars

C1_Witness ==
    /\ InGame /\ winner = "MICE" /\ NoneUneaten
    /\ \E i \in Mice : mice[i].alive /\ ~mice[Other(i)].alive

\* C3: once the outcome is set nothing of the simulation changes until a new
\* run is started: outcome, positions, alive and eaten flags, targets, doors,
\* claims, phase, turn counter and the pending queue all stay.
C3_FrozenAfterOutcome ==
    [][winner # "None" /\ ~(state = "MENU" /\ state' = "GAME")
         => /\ UNCHANGED <<winner, grid, door_states, cheeses, current_turn,
                           turn_phase, pending_moves, current_character,
                           claimed_cheeses>>
            /\ cat'.x = cat.x /\ cat'.y = cat.y /\ cat'.target = cat.target
            /\ \A i \in Mice : /\ mice'[i].x = mice[i].x
                               /\ mice'[i].y = mice[i].y
                               /\ mice'[i].alive = mice[i].alive
                               /\ mice'[i].target = mice[i].target]_vars

C3_Witness ==
    /\ InGame /\ winner = "CAT" /\ turn_phase = "EXECUTING_CAT"
    /\ \E c \in Cheeses : ~cheeses[c].eaten

\* C4: a move of the cat onto the cell of a living mouse leaves that mouse
\* dead, without target and without claim; and in every state no claim is
\* held by a dead mouse.
C4_Capture ==
    /\ [](InGame => \A c \in Cheeses :
                       claimed_cheeses[c] # NoTarget
                           => mice[claimed_cheeses[c]].alive)
    /\ [][SameRun /\ (cat'.x # cat.x \/ cat'.y # cat.y)
            => \A i \in Mice :
                  mice[i].alive /\ mice[i].x = cat'.x /\ mice[i].y = cat'.y
                      => /\ ~mice'[i].alive
                         /\ mice'[i].target = NoTarget
                         /\ \A c \in Cheeses : claimed_cheeses'[c] # i]_vars

C4_Witness ==
    /\ InGame /\ winner = "None"
    /\ \E i \in Mice :
          /\ ~mice[i].alive /\ mice[i].x = cat.x /\ mice[i].y = cat.y
          /\ mice[i].target = NoTarget
          /\ mice[Other(i)].alive
          /\ \E c \in Cheeses : claimed_cheeses[c] = Other(i)
          /\ \E c \in Cheeses : ~cheeses[c].eaten /\ claimed_cheeses[c] = NoTarget

\* C5: a move of a mouse onto the cell of an uneaten cheese leaves the cheese
\* eaten, the mouse without target and the cheese without claim; and in
\* every state no claim is on an eaten cheese.
C5_Eating ==
    /\ [](InGame => \A c \in Cheeses :
                       cheeses[c].eaten => claimed_cheeses[c] = NoTarget)
    /\ [][SameRun
            => \A i \in Mice : \A c \in Cheeses :
                  /\ (mice'[i].x # mice[i].x \/ mice'[i].y # mice[i].y)
                  /\ ~cheeses[c].eaten
                  /\ cheeses[c].x = mice'[i].x /\ cheeses[c].y = mice'[i].y
                  => /\ cheeses'[c].eaten
                     /\ mice'[i].target = NoTarget
                     /\ claimed_cheeses'[c] = NoTarget]_vars

C5_Witness ==
    /\ InGame /\ winner = "None"
    /\ \E i \in Mice : \E c \in Cheeses :
          /\ mice[i].alive /\ mice[i].anim > 0
          /\ cheeses[c].eaten
          /\ cheeses[c].x = mice[i].x /\ cheeses[c].y = mice[i].y
          /\ mice[i].target = NoTarget

ExecutePhase(i) == IF i = 1 THEN "EXECUTE_MOUSE1" ELSE "EXECUTE_MOUSE2"

ExecutingPhase(i) == IF i = 1 THEN "EXECUTING_MOUSE1" ELSE "EXECUTING_MOUSE2"

\* The step in which mouse i plans its turn: its Execute phase is left.
MousePlans(i) ==
    SameRun /\ turn_phase = ExecutePhase(i) /\ turn_phase' # turn_phase

\* Some uneaten cheese is not claimed by the other mouse.
SomeFree(i) ==
    \E c \in Cheeses : ~cheeses[c].eaten /\ claimed_cheeses[c] # Other(i)

\* The length of the path from mouse i to cheese c.
MouseDist(i, c) ==
    Len(bfs_pathfind(grid, mice[i].x, mice[i].y, cheeses[c].x, cheeses[c].y))

\* C6: a mouse that plans while some uneaten cheese is not claimed by the
\* other mouse targets and claims a cheese the other mouse has not claimed,
\* and the claims of the other mouse stay; a claim of the other mouse is
\* overwritten only when the other mouse has claimed every uneaten cheese.
C6_ClaimRespected ==
    [][\A i \in Mice :
          /\ MousePlans(i) /\ SomeFree(i)
                => /\ mice'[i].target # NoTarget
                   /\ claimed_cheeses[mice'[i].target] # Other(i)
                   /\ claimed_cheeses'[mice'[i].target] = i
                   /\ \A c \in Cheeses : claimed_cheeses[c] = Other(i)
                          => claimed_cheeses'[c] = Other(i)
          /\ SameRun
                => \A c \in Cheeses :
                      claimed_cheeses[c] = Other(i) /\ claimed_cheeses'[c] = i
                          => /\ MousePlans(i)
                             /\ mice[Other(i)].alive
                             /\ ~SomeFree(i)]_vars

\* Mouse i has just planned for a cheese of its own although a cheese the
\* other mouse claimed is strictly nearer.
C6_Witness ==
    /\ InGame /\ winner = "None"
    /\ \E i \in Mice : \E c \in Cheeses :
          /\ turn_phase = ExecutingPhase(i)
          /\ mice[i].alive /\ mice[Other(i)].alive
          /\ mice[i].target # NoTarget
          /\ claimed_cheeses[mice[i].target] = i
          /\ ~cheeses[c].eaten /\ claimed_cheeses[c] = Other(i)
          /\ MouseDist(i, c) < MouseDist(i, mice[i].target)

\* C7: a living mouse that plans while a cheese is uneaten gets a target and
\* a plan of exactly one action; its turn is empty only when no cheese is
\* left.
C7_MouseAlwaysPlans ==
    [][\A i \in Mice :
          /\ MousePlans(i) /\ mice[i].alive /\ ~NoneUneaten
                => /\ mice'[i].target # NoTarget
                   /\ Len(pending_moves') = 1
                   /\ turn_phase' = ExecutingPhase(i)
          /\ MousePlans(i) /\ turn_phase' # ExecutingPhase(i)
                => NoneUneaten]_vars

\* Mouse i has just planned by the fall back: the cheese it goes for was
\* claimed by the other mouse, as was every other uneaten cheese.
C7_Witness ==
    /\ InGame /\ winner = "None"
    /\ \E i \in Mice :
          /\ turn_phase = ExecutingPhase(i)
          /\ Len(pending_moves) = 1
          /\ mice[i].alive /\ mice[Other(i)].alive
          /\ mice[i].target # NoTarget
          /\ mice[Other(i)].target = mice[i].target
          /\ \A c \in Cheeses :
                ~cheeses[c].eaten /\ c # mice[i].target
                    => claimed_cheeses[c] = Other(i)

\* C8: within a run the turn counter grows by exactly one in every step that
\* enters ANNOUNCE_CAT from another phase, and changes in no other step.
C8_TurnCounter ==
    [][SameRun
         => IF turn_phase' = "ANNOUNCE_CAT" /\ turn_phase # "ANNOUNCE_CAT"
            THEN current_turn' = current_turn + 1
            ELSE current_turn' = current_turn]_vars

\* A later turn in which mouse 1 is dead and mouse 2 alive.
C8_Witness ==
    /\ InGame /\ winner = "None" /\ current_turn >= 2
    /\ turn_phase = "ANNOUNCE_CAT"
    /\ ~mice[1].alive /\ mice[2].alive

\* C10: within a run an opened door stays open, an eaten cheese stays eaten
\* and a dead mouse stays dead.
C10_Monotone ==
    [][~(state = "MENU" /\ state' = "GAME") /\ mice # << >>
         => /\ \A y \in Coord : \A x \in Coord :
                  door_states[y][x] => door_states'[y][x]
            /\ \A c \in Cheeses : cheeses[c].eaten => cheeses'[c].eaten
            /\ \A i \in Mice : ~mice[i].alive => ~mice'[i].alive]_vars

\* A run goes on with two doors opened, a cheese eaten and a mouse dead.
C10_Witness ==
    /\ InGame /\ winner = "None"
    /\ Cardinality({p \in Coord \X Coord : door_states[p[2]][p[1]]}) >= 2
    /\ \E c \in Cheeses : cheeses[c].eaten
    /\ \E i \in Mice : ~mice[i].alive

\* Mouse i is the only living mouse.
LoneAlive(i) == mice[i].alive /\ ~mice[Other(i)].alive

\* The length of the path from the cat to mouse i.
CatDist(i) == Len(bfs_pathfind(grid, cat.x, cat.y, mice[i].x, mice[i].y))

MoveOnto(i) == << <<"move", mice[i].x, mice[i].y>> >>

\* C9: when the cat plans with the only living mouse one step away, its plan
\* is the one move onto the mouse; when that move is dequeued the queue is
\* empty and the mouse is dead; and with no mouse alive the game is either
\* still in the cat's executing phase or won by the cat, so no mouse plans or
\* acts before the outcome is set.
C9_CaptureAtDistanceOne ==
    /\ [](InGame /\ NoneAlive
            => \/ turn_phase = "EXECUTING_CAT" /\ current_character = "cat"
               \/ winner = "CAT" /\ turn_phase = "ANNOUNCE_CAT")
    /\ [][\A i \in Mice :
             /\ SameRun /\ turn_phase = "EXECUTE_CAT" /\ turn_phase' # turn_phase
                /\ LoneAlive(i) /\ CatDist(i) = 1
                   => /\ turn_phase' = "EXECUTING_CAT"
                      /\ pending_moves' = MoveOnto(i)
                      /\ cat'.target = i
                      /\ mice'[i] = mice[i]
             /\ SameRun /\ turn_phase = "EXECUTING_CAT" /\ LoneAlive(i)
                /\ pending_moves = MoveOnto(i) /\ pending_moves' # pending_moves
                   => /\ pending_moves' = << >>
                      /\ cat'.x = mice[i].x /\ cat'.y = mice[i].y
                      /\ ~mice'[i].alive]_vars

\* The cat has planned the capture of the only living mouse, one step away,
\* and has not moved yet.
C9_Witness ==
    /\ InGame /\ winner = "None" /\ turn_phase = "EXECUTING_CAT"
    /\ \E i \in Mice :
          /\ LoneAlive(i) /\ CatDist(i) = 1
          /\ pending_moves = MoveOnto(i)
          /\ cat.target = i /\ cat.anim = 0

\* C2: under fair ticking every run that is started reaches an outcome.
C2_RunTerminates == [](InGame => <>(winner # "None"))

\* A run that has lasted several turns, with both mice alive, cheese left and
\* a mouse on its way.
C2_Witness ==
    /\ InGame /\ winner = "None" /\ current_turn >= 4
    /\ \A i \in Mice : mice[i].alive
    /\ pending_moves # << >>

\* The interior cells <<x, y>> of a grid that are not walls.
Interior == 1 .. (GRID_SIZE - 2)

NonWall(g) == {p \in Interior \X Interior : g[p[2]][p[1]] # WALL}

Adjacent(p, q) ==
    \/ p[1] = q[1] /\ (p[2] = q[2] + 1 \/ q[2] = p[2] + 1)
    \/ p[2] = q[2] /\ (p[1] = q[1] + 1 \/ q[1] = p[1] + 1)

\* The cells reached from the cells seen by steps over cells that are not
\* walls.
RECURSIVE ReachFrom(_, _)
ReachFrom(g, seen) ==
    LET more == {q \in NonWall(g) \ seen : \E p \in seen : Adjacent(p, q)}
    IN  IF more = {} THEN seen ELSE ReachFrom(g, seen \cup more)

Connected(g) == \A p \in NonWall(g) : ReachFrom(g, {p}) = NonWall(g)

\* The mazes generate_maze_dfs returns within the bounds, before the doors.
GeneratedMazes == {generate_maze_dfs(seed) : seed \in 0 .. (MaxSeed - 1)}

MazesConnected == \A g \in GeneratedMazes : Connected(g)

\* The state generate_map and the reset of the scheduler leave: a run that
\* has not begun its first turn.
JustGenerated ==
    InGame /\ current_turn = 0 /\ turn_phase = "ANNOUNCE_CAT" /\ winner = "None"

DoorCells == {p \in Interior \X Interior : grid[p[2]][p[1]] = DOOR}

\* C11: in every generated map every interior cell that is a path or a door
\* is reached from every other one by steps over cells that are not walls,
\* before the doors are placed and after.
C11_Connected ==
    /\ MazesConnected
    /\ JustGenerated => Connected(grid)

\* A run on a map with two doors and rooms on both sides of each.
C11_Witness ==
    /\ JustGenerated /\ Cardinality(DoorCells) >= 2
    /\ Cardinality(NonWall(grid)) > 1 + NumMice + NumCheese + 2

\* The spanning tree the while loop of generate_maze_dfs carves for a seed,
\* before the braiding loop.
DfsTree(seed) == dfs_carve(Carve(AllWall, 1, 1), << <<1, 1>> >>, seed, 0)

\* The pairs of adjacent cells of a grid that are not walls.
Passages(g) ==
    {e \in NonWall(g) \X NonWall(g) :
        \/ e[1][1] = e[2][1] /\ e[2][2] = e[1][2] + 1
        \/ e[1][2] = e[2][2] /\ e[2][1] = e[1][1] + 1}

\* A connected network has a cycle when it has as many passages as cells.
HasCycle(g) == Cardinality(Passages(g)) >= Cardinality(NonWall(g))

\* C12: the mazes a run can be started on include one in which a braiding
\* iteration, at some coordinates randrange can draw, carves a wall, or one
\* that has a cycle when generate_maze_dfs returns it.
C12_BraidingAddsCycle ==
    InGame =>
        \E seed \in 0 .. (MaxSeed - 1) :
            \/ \E x \in BraidCoords, y \in BraidCoords :
                  braid_at(DfsTree(seed), x, y, 1) # DfsTree(seed)
            \/ HasCycle(generate_maze_dfs(seed))

AllCells == Coord \X Coord

\* The least number of steps from the cells seen, k steps from the start, to
\* the target over cells that are not walls; -1 when there is no way.
RECURSIVE Hops(_, _, _, _)
Hops(g, seen, target, k) ==
    IF target \in seen THEN k
    ELSE LET more == {q \in AllCells \ seen :
                         g[q[2]][q[1]] # WALL /\ \E p \in seen : Adjacent(p, q)}
         IN  IF more = {} THEN -1 ELSE Hops(g, seen \cup more, target, k + 1)

\* What bfs_pathfind owes for the path it returned from start to target.
ShortestPath(g, start, target, path) ==
    LET hops == Hops(g, {start}, target, 0)
    IN  IF path = << >> THEN start = target \/ hops = -1
        ELSE /\ start # target
             /\ \A k \in 1 .. Len(path) :
                   /\ path[k] # start
                   /\ g[path[k][2]][path[k][1]] # WALL
                   /\ Adjacent(IF k = 1 THEN start ELSE path[k - 1], path[k])
             /\ path[Len(path)] = target
             /\ Len(path) = hops

Queried == mice # << >>

\* C13: the path bfs_pathfind returns is empty exactly when the start is the
\* target or the target cannot be reached; otherwise it leaves out the start,
\* ends at the target, goes by steps to adjacent cells that are not walls,
\* and is as long as the least number of steps to the target, doors counting
\* as free cells.
C13_ShortestPath ==
    Queried => ShortestPath(grid, <<cat.x, cat.y>>, <<mice[1].x, mice[1].y>>,
                            pending_moves)

\* A path of three steps through a closed door on a grid where every cell of
\* the window is free, so that other ways to the target exist.
C13_Witness ==
    /\ Queried /\ Len(pending_moves) = 3
    /\ \A p \in PathWindow : grid[p[2]][p[1]] # WALL
    /\ \E k \in 1 .. 2 : grid[pending_moves[k][2]][pending_moves[k][1]] = DOOR

\* The step in which the cat plans its turn: EXECUTE_CAT is left.
CatPlans == SameRun /\ turn_phase = "EXECUTE_CAT" /\ turn_phase' # turn_phase

\* The number of moves among the first k actions of a plan.
MovesIn(plan, k) == Cardinality({j \in 1 .. k : plan[j][1] = "move"})

ClosedDoorAt(x, y) == grid[y][x] = DOOR /\ ~door_states[y][x]

\* What a plan of the cat owes along the path to its target: every action is
\* on the next cell of the path not yet walked into; it is an open_door when
\* that cell is a closed door the plan has not just opened, and a move
\* otherwise; and the plan ends when the budget or the path is used up.
CatPlanFollows(plan, path) ==
    /\ Len(plan) >= 1 /\ Len(plan) <= CatMP
    /\ \A k \in 1 .. Len(plan) :
          LET j == MovesIn(plan, k - 1) + 1
              opened == /\ k > 1
                        /\ plan[k - 1] = <<"open_door", plan[k][2], plan[k][3]>>
          IN  /\ j <= Len(path)
              /\ <<plan[k][2], plan[k][3]>> = path[j]
              /\ plan[k][1] = IF ClosedDoorAt(plan[k][2], plan[k][3]) /\ ~opened
                              THEN "open_door" ELSE "move"
    /\ Len(plan) = CatMP \/ MovesIn(plan, Len(plan)) = Len(path)

\* C14: a plan of the cat has at most two actions and follows the path in
\* order: at a closed door it opens the door and walks in only if budget is
\* left, else stops after the open_door; it never walks into a door cell
\* unless the door is open or the open_door for it comes just before.
C14_CatPlan ==
    /\ [](InGame /\ turn_phase = "EXECUTING_CAT" => Len(pending_moves) <= CatMP)
    /\ [][CatPlans /\ pending_moves' # << >>
            => /\ cat'.target # NoTarget
               /\ CatPlanFollows(pending_moves',
                      bfs_pathfind(grid, cat.x, cat.y,
                                   mice[cat'.target].x, mice[cat'.target].y))
               /\ \A k \in 1 .. Len(pending_moves') :
                     LET a == pending_moves'[k]
                     IN  a[1] = "move" /\ grid[a[3]][a[2]] = DOOR
                            => \/ door_states[a[3]][a[2]]
                               \/ k > 1 /\ pending_moves'[k - 1]
                                              = <<"open_door", a[2], a[3]>>]_vars

\* The cat has planned a step and, with its last point, the opening of the
\* closed door behind it.
C14_Witness ==
    /\ InGame /\ winner = "None" /\ turn_phase = "EXECUTING_CAT"
    /\ Len(pending_moves) = 2
    /\ pending_moves[1][1] = "move" /\ pending_moves[2][1] = "open_door"
    /\ ClosedDoorAt(pending_moves[2][2], pending_moves[2][3])
    /\ cat.anim = 0

\* The place of a phase in the order of a turn.
PhaseRank(phase) ==
    CASE phase = "ANNOUNCE_CAT" -> 1
      [] phase = "EXECUTE_CAT" -> 2
      [] phase = "EXECUTING_CAT" -> 3
      [] phase = "ANNOUNCE_MOUSE1" -> 4
      [] phase = "EXECUTE_MOUSE1" -> 5
      [] phase = "EXECUTING_MOUSE1" -> 6
      [] phase = "ANNOUNCE_MOUSE2" -> 7
      [] phase = "EXECUTE_MOUSE2" -> 8
      [] phase = "EXECUTING_MOUSE2" -> 9

\* Within a turn the phases only go forward; a new turn begins at
\* ANNOUNCE_CAT.
PhasesForward ==
    IF current_turn' = current_turn
    THEN PhaseRank(turn_phase') >= PhaseRank(turn_phase)
    ELSE current_turn' = current_turn + 1 /\ turn_phase' = "ANNOUNCE_CAT"

MouseMoved(i) == mice'[i].x # mice[i].x \/ mice'[i].y # mice[i].y

\* C15: the plan of a mouse is one action; a mouse changes place only by the
\* one move of its plan, to an adjacent cell, in its own executing phase; a
\* door opened in that phase is the whole plan, so the mouse stays; and the
\* queue is filled once in a turn, the phases of a turn going forward only:
\* so a mouse acts at most once between two turns of the cat.
C15_MouseOneAction ==
    /\ [](InGame => \A i \in Mice :
             turn_phase = ExecutingPhase(i) => Len(pending_moves) <= 1)
    /\ [][SameRun => \A i \in Mice :
             /\ MouseMoved(i)
                   => /\ turn_phase = ExecutingPhase(i)
                      /\ turn_phase' = turn_phase
                      /\ pending_moves = << <<"move", mice'[i].x, mice'[i].y>> >>
                      /\ pending_moves' = << >>
                      /\ Adjacent(<<mice[i].x, mice[i].y>>,
                                  <<mice'[i].x, mice'[i].y>>)
                      /\ door_states' = door_states
             /\ turn_phase = ExecutingPhase(i) /\ door_states' # door_states
                   => /\ pending_moves' = << >>
                      /\ Len(pending_moves) = 1
                      /\ pending_moves[1][1] = "open_door"
                      /\ ~MouseMoved(i)
             /\ turn_phase = ExecutingPhase(i) /\ pending_moves = << >>
                   => pending_moves' = << >>]_vars
    /\ [][SameRun => PhasesForward]_vars

\* Mouse i has opened the door next to it as its action of the turn, and
\* stays where it is.
C15_Witness ==
    /\ InGame /\ winner = "None" /\ door_opening_animation
    /\ \E i \in Mice :
          /\ turn_phase = ExecutingPhase(i) /\ pending_moves = << >>
          /\ mice[i].alive /\ mice[i].anim = 0
          /\ \E p \in DoorCells :
                door_states[p[2]][p[1]] /\ Adjacent(p, <<mice[i].x, mice[i].y>>)

OpenDoors == {p \in Coord \X Coord : door_states[p[2]][p[1]]}

\* C16: the start of a run, from the menu after construction or after a
\* finished run, leaves the phase ANNOUNCE_CAT, the turn counter 0, no
\* winner, an empty queue, no current character, an empty ledger, every door
\* closed and no door delay running, the cat and two living mice at rest
\* without target and six uneaten cheeses.
C16_FreshRun ==
    [][state = "MENU" /\ state' = "GAME"
         => /\ turn_phase' = "ANNOUNCE_CAT"
            /\ current_turn' = 0
            /\ winner' = "None"
            /\ pending_moves' = << >>
            /\ current_character' = "None"
            /\ \A c \in Cheeses : claimed_cheeses'[c] = NoTarget
            /\ \A y \in Coord : \A x \in Coord : ~door_states'[y][x]
            /\ ~door_opening_animation'
            /\ cat'.target = NoTarget /\ cat'.anim = 0
            /\ Len(mice') = NumMice
            /\ \A i \in Mice : /\ mice'[i].alive
                               /\ mice'[i].mouse_id = i
                               /\ mice'[i].target = NoTarget
                               /\ mice'[i].anim = 0
            /\ Len(cheeses') = NumCheese
            /\ \A c \in Cheeses : ~cheeses'[c].eaten]_vars

\* Back at the menu after a run the mice won in a later turn, with a mouse
\* dead, doors opened and every cheese eaten: a new run can be started.
C16_Witness ==
    /\ state = "MENU" /\ winner = "MICE" /\ current_turn >= 2
    /\ turn_phase # "ANNOUNCE_CAT"
    /\ OpenDoors # {}
    /\ \E i \in Mice : ~mice[i].alive
    /\ NoneUneaten

\* The cells the cat, the mice and the cheeses are on, in this order.
Placed ==
    << <<cat.x, cat.y>> >>
    \o [i \in 1 .. Len(mice) |-> <<mice[i].x, mice[i].y>>]
    \o [c \in 1 .. Len(cheeses) |-> <<cheeses[c].x, cheeses[c].y>>]

\* C17: generate_map leaves one cat, two mice with the ids 1 and 2 and six
\* cheeses, each on an interior PATH cell, no two on the same cell.
C17_Placement ==
    JustGenerated
       => /\ Len(mice) = NumMice /\ Len(cheeses) = NumCheese
          /\ \A i \in Mice : mice[i].mouse_id = i
          /\ \A k \in 1 .. Len(Placed) :
                /\ Placed[k] \in Interior \X Interior
                /\ grid[Placed[k][2]][Placed[k][1]] = PATH
          /\ \A k \in 1 .. Len(Placed) : \A j \in 1 .. Len(Placed) :
                Placed[k] = Placed[j] => k = j

\* A fresh map with a door right next to the cat and free cells left over.
C17_Witness ==
    /\ JustGenerated
    /\ \E p \in DoorCells : Adjacent(p, <<cat.x, cat.y>>)
    /\ Cardinality(NonWall(grid) \ DoorCells) > Len(Placed)

\* A cell a character can stand on: a path, or a door that was opened.
FreeCell(x, y) == grid[y][x] = PATH \/ (grid[y][x] = DOOR /\ door_states[y][x])

CatMoved == cat'.x # cat.x \/ cat'.y # cat.y

\* C18: the cat and the living mice are never on a wall or on a closed door,
\* and every move goes to a cell adjacent to the mover that, when the move
\* is executed, is a path or an opened door.
C18_NoMoveIntoWall ==
    /\ [](InGame => /\ FreeCell(cat.x, cat.y)
                    /\ \A i \in Mice : mice[i].alive => FreeCell(mice[i].x, mice[i].y))
    /\ [][SameRun
            => /\ CatMoved => /\ Adjacent(<<cat.x, cat.y>>, <<cat'.x, cat'.y>>)
                              /\ FreeCell(cat'.x, cat'.y)
               /\ \A i \in Mice :
                     MouseMoved(i)
                        => /\ Adjacent(<<mice[i].x, mice[i].y>>,
                                       <<mice'[i].x, mice'[i].y>>)
                           /\ FreeCell(mice'[i].x, mice'[i].y)]_vars

\* A living mouse is stepping into a door cell that was opened, while the cat
\* is on another cell.
C18_Witness ==
    /\ InGame /\ winner = "None"
    /\ \E i \in Mice :
          /\ mice[i].alive /\ mice[i].anim > 0
          /\ grid[mice[i].y][mice[i].x] = DOOR
          /\ door_states[mice[i].y][mice[i].x]
          /\ <<cat.x, cat.y>> # <<mice[i].x, mice[i].y>>

CharacterOf(i) == IF i = 1 THEN "mouse1" ELSE "mouse2"

\* The step in which a plan is put in the queue.
Planned == Len(pending_moves') > Len(pending_moves)

\* C19: in one turn the cat, mouse 1 and mouse 2 plan in this order, each at
\* most once: the phases of a turn go forward only, and a plan is put in the
\* queue only in the step that leaves the planner's Execute phase for its
\* Executing phase.  A dead mouse is never in its Execute or Executing
\* phase, is never the current character, and nothing of it changes: it
\* does not move, gets no target and writes no claim.
C19_TurnOrder ==
    /\ [](InGame => \A i \in Mice :
             ~mice[i].alive
                => /\ turn_phase # ExecutePhase(i)
                   /\ turn_phase # ExecutingPhase(i)
                   /\ current_character # CharacterOf(i))
    /\ [][SameRun
            => /\ PhasesForward
               /\ Planned
                    => \/ /\ turn_phase = "EXECUTE_CAT"
                          /\ turn_phase' = "EXECUTING_CAT"
                          /\ current_character' = "cat"
                       \/ \E i \in Mice :
                             /\ turn_phase = ExecutePhase(i)
                             /\ turn_phase' = ExecutingPhase(i)
                             /\ current_character' = CharacterOf(i)
                             /\ mice[i].alive
               /\ \A i \in Mice :
                     ~mice[i].alive
                        => /\ mice'[i] = mice[i]
                           /\ \A c \in Cheeses : claimed_cheeses'[c] # i]_vars

\* Mouse 2 acts in a later turn in which mouse 1, dead, was passed over.
C19_Witness ==
    /\ InGame /\ winner = "None" /\ current_turn >= 1
    /\ ~mice[1].alive /\ mice[2].alive
    /\ turn_phase = "EXECUTING_MOUSE2" /\ current_character = "mouse2"
    /\ pending_moves # << >>

Dequeued == Len(pending_moves') < Len(pending_moves)

\* The current character is in the middle of a slide.
MidSlide == current_character # "None" /\ is_animating(Self, current_character)

ExecutingPhases == {"EXECUTING_CAT", "EXECUTING_MOUSE1", "EXECUTING_MOUSE2"}

\* C20: a frame takes at most one action from the queue, and none while the
\* current character is in a slide; while the delay of the last open_door
\* has not elapsed a frame leaves the queue and the game as they are; the
\* phase does not change in a frame that took an action, nor while the queue
\* is not empty; and an Executing phase is left only with the queue empty
\* and the current character at rest.
C20_OneActionPerTick ==
    /\ [](InGame /\ winner = "None" /\ pending_moves # << >>
                 /\ door_opening_animation
            => \A turn_elapsed \in BOOLEAN :
                  Frame(turn_elapsed, FALSE) = update_animations(Self))
    /\ [][SameRun
            => /\ Dequeued => /\ pending_moves' = Tail(pending_moves)
                              /\ ~MidSlide
                              /\ turn_phase' = turn_phase
               /\ pending_moves # << >> => turn_phase' = turn_phase
               /\ turn_phase \in ExecutingPhases /\ turn_phase' # turn_phase
                     => pending_moves = << >> /\ ~MidSlide]_vars

\* The cat has opened a door and the move through it waits in the queue for
\* the door delay.
C20_Witness ==
    /\ InGame /\ winner = "None" /\ turn_phase = "EXECUTING_CAT"
    /\ door_opening_animation
    /\ Len(pending_moves) = 1 /\ pending_moves[1][1] = "move"
    /\ grid[pending_moves[1][3]][pending_moves[1][2]] = DOOR
    /\ door_states[pending_moves[1][3]][pending_moves[1][2]]
    /\ cat.anim = 0

\* C21: every entry of the claim ledger is for the cheese its mouse is going
\* for: the target of the mouse that holds the claim is that cheese.
C21_ClaimIsTarget ==
    InGame => \A c \in Cheeses :
                 claimed_cheeses[c] # NoTarget
                    => mice[claimed_cheeses[c]].target = c

\* The least number of steps between two cells of the grid; -1: no way.
Dist(p, q) == Hops(grid, {p}, q, 0)

\* The candidate find_nearest_target owes: among the candidates ids, at the
\* cells pos[id], those at one step or more from p; of these the nearest, the
\* one with the least id (the first of the list) among equals; NoTarget when
\* there is none.
NearestOf(p, ids, pos) ==
    LET far == {k \in ids : Dist(p, pos[k]) > 0}
    IN  IF far = {} THEN NoTarget
        ELSE CHOOSE k \in far :
                \A j \in far : \/ Dist(p, pos[k]) < Dist(p, pos[j])
                               \/ Dist(p, pos[k]) = Dist(p, pos[j]) /\ k <= j

MousePos == [i \in Mice |-> <<mice[i].x, mice[i].y>>]

CheesePos == [c \in Cheeses |-> <<cheeses[c].x, cheeses[c].y>>]

\* The candidates of mouse i: the uneaten cheeses the other mouse has not
\* claimed, or every uneaten cheese when there is none.
Candidates(i) ==
    LET uneaten == {c \in Cheeses : ~cheeses[c].eaten}
        free == {c \in uneaten : claimed_cheeses[c] # Other(i)}
    IN  IF free = {} THEN uneaten ELSE free

\* C22: the cat that plans takes for target the nearest living mouse at one
\* step or more, the first of the list among equals, and plans nothing and
\* keeps its target when there is none; a living mouse that plans takes the
\* nearest of its candidates in the same way.
C22_NearestTarget ==
    [][/\ CatPlans
          => LET t == NearestOf(<<cat.x, cat.y>>,
                                {i \in Mice : mice[i].alive}, MousePos)
             IN  IF t = NoTarget
                 THEN cat'.target = cat.target /\ pending_moves' = << >>
                 ELSE cat'.target = t /\ pending_moves' # << >>
       /\ \A i \in Mice :
             MousePlans(i) /\ mice[i].alive
                => LET t == NearestOf(MousePos[i], Candidates(i), CheesePos)
                   IN  IF t = NoTarget
                       THEN mice'[i].target = mice[i].target
                            /\ pending_moves' = << >>
                       ELSE mice'[i].target = t /\ claimed_cheeses'[t] = i]_vars

\* Mouse i has just planned for a cheese although a later cheese of the list,
\* free as well, is as near.
C22_Witness ==
    /\ InGame /\ winner = "None"
    /\ \E i \in Mice : \E c \in Cheeses :
          /\ turn_phase = ExecutingPhase(i) /\ pending_moves # << >>
          /\ mice[i].alive /\ mice[i].target # NoTarget
          /\ c > mice[i].target
          /\ ~cheeses[c].eaten /\ claimed_cheeses[c] = NoTarget
          /\ MouseDist(i, c) = MouseDist(i, mice[i].target)

\* C23: no living mouse is on the cell of the cat.
C23_NoSharedCell ==
    InGame => \A i \in Mice :
                 mice[i].alive => <<mice[i].x, mice[i].y>> # <<cat.x, cat.y>>

Captured(i) == mice[i].alive /\ ~mice'[i].alive

\* C24: a mouse is captured only as the target of the cat, by the last action
\* of the plan of the cat, and alone.
C24_CaptureHitsTarget ==
    [][SameRun
         => \A i \in Mice :
               Captured(i) => /\ cat'.target = i
                              /\ turn_phase = "EXECUTING_CAT"
                              /\ pending_moves' = << >>
                              /\ ~Captured(Other(i))]_vars

ClaimsOf(i) == {c \in Cheeses : claimed_cheeses[c] = i}

\* C25: a mouse holds the claim of at most one cheese.
C25_OneClaimPerMouse ==
    InGame => \A i \in Mice : Cardinality(ClaimsOf(i)) <= 1

SamePlace(old, new) == new.x = old.x /\ new.y = old.y

DoorsKeptBut(p) ==
    \A q \in Coord \X Coord :
       q # p => door_states'[q[2]][q[1]] = door_states[q[2]][q[1]]

EatenKept == \A c \in Cheeses : cheeses'[c].eaten = cheeses[c].eaten

AliveKept == \A i \in Mice : mice'[i].alive = mice[i].alive

\* C26: the frame of the three kinds of executed action.  An open_door of
\* (x, y) opens that door and changes no other door state, no place of the cat
\* or of a mouse, no alive flag, no eaten flag and no claim; a move of the cat
\* changes no eaten flag and the place of no mouse; a move of a mouse changes
\* no alive flag, no door state and no place but its own.
C26_ActionFrame ==
    [][SameRun /\ Dequeued
         => LET a == Head(pending_moves)
            IN  /\ a[1] = "open_door"
                      => /\ door_states'[a[3]][a[2]]
                         /\ DoorsKeptBut(<<a[2], a[3]>>)
                         /\ SamePlace(cat, cat')
                         /\ \A i \in Mice : SamePlace(mice[i], mice'[i])
                         /\ AliveKept
                         /\ EatenKept
                         /\ claimed_cheeses' = claimed_cheeses
                /\ a[1] = "move" /\ current_character = "cat"
                      => /\ <<cat'.x, cat'.y>> = <<a[2], a[3]>>
                         /\ EatenKept
                         /\ \A i \in Mice : SamePlace(mice[i], mice'[i])
                /\ \A i \in Mice :
                      a[1] = "move" /\ current_character = CharacterOf(i)
                         => /\ <<mice'[i].x, mice'[i].y>> = <<a[2], a[3]>>
                            /\ AliveKept
                            /\ door_states' = door_states
                            /\ SamePlace(cat, cat')
                            /\ SamePlace(mice[Other(i)], mice'[Other(i)])]_vars

\* A mouse has just moved onto a cheese and eaten it, in a run in which a door
\* has been opened and the cat has captured the other mouse by a move.
C26_Witness ==
    /\ InGame /\ OpenDoors # {}
    /\ \E i \in Mice :
          /\ turn_phase = ExecutingPhase(i) /\ pending_moves = << >>
          /\ mice[i].alive /\ mice[i].anim = AnimFrames - 1
          /\ ~mice[Other(i)].alive
          /\ \E c \in Cheeses : /\ cheeses[c].eaten
                                /\ SamePlace(cheeses[c], mice[i])

====
